---- MODULE Spec2Model ----
(***************************************************************************)
(* Model of rip.py: download_playlist walks the chapters and episodes of a *)
(* playlist; download_episode fetches the MPD, picks the video and audio   *)
(* adaptation sets, fetches both encrypted files, resolves the keys,       *)
(* decrypts and combines them with ffmpeg and removes the encrypted files. *)
(*                                                                         *)
(* Strings that the code takes apart (names, key ids) are sequences of     *)
(* tokens; the tokens "/", "-", ".video", ".audio", ".mp4" stand for the   *)
(* substrings the code handles, every other token for one character.       *)
(***************************************************************************)
EXTENDS Integers, Sequences, FiniteSets, TLC

VARIABLES playlist,   \* the parsed Playlist (rip.py:191)
          server,     \* which MPD documents the origin may answer with
          run,        \* number of the current invocation of download_playlist
          pc,         \* position of the control flow
          ci, ei,     \* index of the chapter / episode the loops are at
          dirs,       \* directories on disk
          files,      \* files on disk: path -> content
          mpd_data,   \* local of download_episode (rip.py:129)
          video_url,  \* local of download_episode (rip.py:136)
          audio_url,  \* local of download_episode (rip.py:139)
          video_key,  \* local of download_episode (rip.py:148)
          audio_key,  \* local of download_episode (rip.py:149)
          log,        \* what the current run did, in order
          prev        \* how the previous run ended, and what it did for its last episode

vars == <<playlist, server, run, pc, ci, ei, dirs, files, mpd_data,
          video_url, audio_url, video_key, audio_key, log, prev>>

locals == <<mpd_data, video_url, audio_url, video_key, audio_key>>

None == "None"

MaxRuns == 2
MaxChapters == 2
MaxEpisodes == 2

-----------------------------------------------------------------------------
(* Strings *)

RECURSIVE Replace(_, _, _)
\* str.replace(old, new) for a one-token old: every occurrence is replaced
Replace(s, old, new) ==
    IF s = <<>> THEN <<>>
    ELSE (IF Head(s) = old THEN new ELSE <<Head(s)>>) \o Replace(Tail(s), old, new)

\* os.path.join(dir, name + suffix): dir and name hold no "/" when this is used
PathJoin(dir, file) == <<dir, file>>

RECURSIVE rstrip(_, _)
\* str.rstrip(ch): every trailing ch is dropped
rstrip(s, ch) ==
    IF s # <<>> /\ s[Len(s)] = ch THEN rstrip(SubSeq(s, 1, Len(s) - 1), ch) ELSE s

RECURSIVE join(_, _)
\* sep.join(parts)
join(sep, parts) ==
    IF parts = <<>> THEN <<>>
    ELSE IF Len(parts) = 1 THEN parts[1]
    ELSE parts[1] \o sep \o join(sep, Tail(parts))

\* urljoin(*args): the parts without their trailing slashes, joined by "/"
urljoin(args) == join(<<"/">>, [i \in DOMAIN args |-> rstrip(args[i], "/")])

\* playlist.source.base, the same for every episode of every playlist
base == <<"h", "/">>

-----------------------------------------------------------------------------
(* Playlist *)

ChapterNames == {<<"s", "/", "t">>, <<"s", "-", "t">>, <<"u">>}
EpisodeNames == {<<"x">>, <<"x", ".audio">>, <<"x", "/", "y">>, <<"x", "-", "y">>}

\* Episode.keys of every episode of the playlists of Spec
Keys == (<<"a", "b">> :> "k1") @@ (<<"c", "d">> :> "k2")

\* a dict in declaration order: a sequence of (name, value) without repeated names
Dicts(names, values, n) ==
    {d \in UNION {[1..k -> names \X values] : k \in 0..n} :
        \A i, j \in DOMAIN d : i # j => d[i][1] # d[j][1]}

Episodes(keymaps) == [id : {<<"i">>}, keys : keymaps]

Chapters(keymaps) == Dicts(EpisodeNames, Episodes(keymaps), MaxEpisodes)

RECURSIVE SumLen(_)
SumLen(chs) == IF chs = <<>> THEN 0 ELSE Len(Head(chs)[2]) + SumLen(Tail(chs))

\* playlists of at most MaxChapters chapters and at most MaxEpisodes episodes in all
Playlists(keymaps) ==
    {p \in Dicts(ChapterNames, Chapters(keymaps), MaxChapters) :
        Len(p) >= 1 /\ SumLen(p) <= MaxEpisodes}

-----------------------------------------------------------------------------
(* MPD documents, as MPDFile.parse_obj returns them: mpd.meta.period.adaptation_set *)

\* Representation (rip.py:59): the base URL names the set's content and bandwidth
Representation(c, bw) == [bandwidth |-> bw, base_url |-> <<c, ToString(bw)>>]

\* AdaptationSet (rip.py:67): `single` tells Representation from List[Representation]
AdaptationSet(c, single, bws, kids) ==
    [content_type   |-> c,
     protections    |-> [i \in DOMAIN kids |-> [cenc_kid |-> kids[i]]],
     single         |-> single,
     representation |-> [i \in DOMAIN bws |-> Representation(c, bws[i])]]

ContentType == {"video", "audio"}

\* cenc_kid is None
NoKid == <<None>>

KidLists == {<<<<"a", "-", "b">>>>, <<<<"c", "d">>>>, <<<<"e", "-", "f">>>>, <<NoKid>>,
             <<<<"a", "-", "b">>, NoKid>>, <<NoKid, <<"a", "-", "b">>>>}

BandwidthLists == {<<>>, <<800>>, <<200, 800>>, <<200, 800, 500>>}

AdaptationSets ==
    {AdaptationSet(c, FALSE, bws, kids) :
        c \in ContentType, bws \in BandwidthLists, kids \in KidLists}
    \cup {AdaptationSet(c, TRUE, <<500>>, kids) : c \in ContentType, kids \in KidLists}

\* Period.adaptation_set has min_items=1 (rip.py:79)
Manifests == UNION {[1..n -> AdaptationSets] : n \in 1..2}

NoMpd == <<>>
NoUrl == <<>>
NoKey == "None"

\* the documents the origin serves in Spec: one that downloads, and three that do not
GoodMpd == <<AdaptationSet("video", FALSE, <<200, 800>>, <<<<"a", "-", "b">>>>),
             AdaptationSet("audio", TRUE, <<500>>, <<<<"c", "d">>>>)>>
TwoAudioMpd == <<AdaptationSet("video", FALSE, <<200, 800>>, <<<<"a", "-", "b">>>>),
                 AdaptationSet("audio", FALSE, <<200, 800>>, <<<<"c", "d">>>>)>>
NoKidMpd == <<AdaptationSet("video", FALSE, <<200, 800>>, <<<<"a", "-", "b">>>>),
              AdaptationSet("audio", TRUE, <<500>>, <<NoKid>>)>>
UnknownKidMpd == <<AdaptationSet("video", FALSE, <<200, 800>>, <<<<"e", "-", "f">>>>),
                   AdaptationSet("audio", TRUE, <<500>>, <<<<"c", "d">>>>)>>
FewManifests == {GoodMpd, TwoAudioMpd, NoKidMpd, UnknownKidMpd}

\* key ids as the MPD declares them, and the key maps of an episode
MaxKidLen == 3
KidAlphabet == {"a", "A", "-"}
Kids == UNION {[1..n -> KidAlphabet] : n \in 1..MaxKidLen}
KeyIds == {<<"a">>, <<"a", "a">>, <<"a", "-", "a">>, <<"a", "A">>}
KeyFor(key_id) == CASE key_id = <<"a", "a">> -> "k1"
                    [] key_id = <<"a", "-", "a">> -> "k2"
                    [] key_id = <<"a", "A">> -> "k3"
                    [] key_id = <<"a">> -> "k4"
KeyMaps == {[key_id \in ids |-> KeyFor(key_id)] : ids \in SUBSET KeyIds}
KidManifests ==
    {<<AdaptationSet("video", FALSE, <<200, 800>>, <<v>>),
       AdaptationSet("audio", TRUE, <<500>>, <<a>>)>> : v \in Kids, a \in Kids}

\* the documents the origin may answer a request for an MPD with
Served == CASE server = "few"  -> FewManifests
            [] server = "kids" -> KidManifests
            [] server = "all"  -> Manifests

-----------------------------------------------------------------------------
(* The filesystem *)

exists(path) == path \in DOMAIN files

\* a file's content: who wrote it, for which episode, and whether it was written in full
Content(kind, whole) == [kind |-> kind, by |-> <<ci, ei>>, whole |-> whole]

Written(path, content) == [p \in DOMAIN files \cup {path} |->
                              IF p = path THEN content ELSE files[p]]

Removed(path) == [p \in DOMAIN files \ {path} |-> files[p]]

-----------------------------------------------------------------------------
(* download_playlist and download_episode: the current chapter and episode *)

\* the name of the chapter as the playlist declares it
chapter_nameAsDeclared == playlist[ci][1]

chapter == playlist[ci][2]
chapter_name == Replace(playlist[ci][1], "/", <<"-">>)
episode == chapter[ei][2]
episode_name == Replace(chapter[ei][1], "/", <<"-">>)

combined_filename == PathJoin(chapter_name, episode_name \o <<".mp4">>)
video_filename == PathJoin(chapter_name, episode_name \o <<".video", ".mp4">>)
audio_filename == PathJoin(chapter_name, episode_name \o <<".audio", ".mp4">>)

Event(op, arg) == [op |-> op, ch |-> ci, ep |-> ei, arg |-> arg]

Did(op, arg) == log' = Append(log, Event(op, arg))

\* the exception is caught and dropped, and the episode goes on to its cleanup
AfterErrorSwallowed == "remove_video"

\* where an uncaught exception takes the control flow: out of the process
AfterError == "aborted"

\* an exception, raised after the events `done`
RaiseAfter(done, error) ==
    /\ pc' = AfterError
    /\ log' = log \o done \o <<Event("error", error)>>

Raise(error) == RaiseAfter(<<>>, error)

\* the keys are resolved before the files are fetched
ThenKeysFirst(step) ==
    CASE step = "fetch_mpd"    -> "select"
      [] step = "select"       -> "keys"
      [] step = "keys"         -> "fetch_video"
      [] step = "fetch_video"  -> "fetch_audio"
      [] step = "fetch_audio"  -> "ffmpeg"
      [] step = "ffmpeg"       -> "remove_video"
      [] step = "remove_video" -> "remove_audio"

\* the audio file is not fetched
ThenWithoutAudio(step) ==
    CASE step = "fetch_mpd"    -> "select"
      [] step = "select"       -> "fetch_video"
      [] step = "fetch_video"  -> "keys"
      [] step = "keys"         -> "ffmpeg"
      [] step = "ffmpeg"       -> "remove_video"
      [] step = "remove_video" -> "remove_audio"

\* the statements of download_episode in the order of the source (rip.py:129-165):
\* the step that follows `step` when it raises nothing
Then(step) ==
    CASE step = "fetch_mpd"    -> "select"
      [] step = "select"       -> "fetch_video"
      [] step = "fetch_video"  -> "fetch_audio"
      [] step = "fetch_audio"  -> "keys"
      [] step = "keys"         -> "ffmpeg"
      [] step = "ffmpeg"       -> "remove_video"
      [] step = "remove_video" -> "remove_audio"

\* the combined file is not looked for
AlreadyCombinedNever == FALSE

\* rip.py:126, `if not os.path.exists(combined_filename)`: its else branch
AlreadyCombined == exists(combined_filename)

\* rip.py:131-132
video == mpd_data[1]
audio == mpd_data[2]

\* the locals of download_episode, before it has set them
NoLocals ==
    /\ mpd_data' = NoMpd
    /\ video_url' = NoUrl
    /\ audio_url' = NoUrl
    /\ video_key' = NoKey
    /\ audio_key' = NoKey

-----------------------------------------------------------------------------
(* download_playlist *)

\* the episodes of a chapter are processed without its directory being created
NextChapterWithoutDir ==
    /\ pc = "chapter"
    /\ IF ci > Len(playlist)
       THEN pc' = "done" /\ ei' = ei
       ELSE pc' = "episode" /\ ei' = 1
    /\ UNCHANGED <<playlist, server, run, ci, dirs, files, locals, log, prev>>

\* rip.py:175-178: the next chapter, or the end of the playlist
NextChapter ==
    /\ pc = "chapter"
    /\ IF ci > Len(playlist)
       THEN /\ pc' = "done"
            /\ UNCHANGED <<dirs, log, ei>>
       ELSE /\ dirs' = dirs \cup {chapter_name}
            /\ log' = Append(log, [op |-> "makedirs", ch |-> ci, ep |-> 0, arg |-> ""])
            /\ ei' = 1
            /\ pc' = "episode"
    /\ UNCHANGED <<playlist, server, run, ci, files, locals, prev>>

\* rip.py:179-187 and 122-126: the next episode of the chapter; download_episode
\* is entered and looks for the combined file
NextEpisode ==
    /\ pc = "episode"
    /\ IF ei > Len(chapter)
       THEN /\ ci' = ci + 1
            /\ pc' = "chapter"
            /\ UNCHANGED <<ei, log>>
       ELSE /\ pc' = IF AlreadyCombined THEN "remove_video" ELSE "fetch_mpd"
            /\ Did("download_episode", IF exists(combined_filename) THEN "exists" ELSE "absent")
            /\ UNCHANGED <<ci, ei>>
    /\ UNCHANGED <<playlist, server, run, dirs, files, locals, prev>>

-----------------------------------------------------------------------------
(* download_episode *)

\* rip.py:129, fetch_mpd (rip.py:94-102)
FetchMpd ==
    /\ pc = "fetch_mpd"
    /\ \/ \E mpd \in Served :
            /\ mpd_data' = mpd
            /\ pc' = Then("fetch_mpd")
            /\ Did("fetch_mpd", "get")
       \/ /\ RaiseAfter(<<Event("fetch_mpd", "get")>>, "HTTPError")
          /\ UNCHANGED mpd_data
       \/ /\ RaiseAfter(<<Event("fetch_mpd", "get")>>, "ValidationError")
          /\ UNCHANGED mpd_data
    /\ UNCHANGED <<playlist, server, run, ci, ei, dirs, files,
                   video_url, audio_url, video_key, audio_key, prev>>

\* rip.py:131-134
SelectStreams ==
    /\ pc = "select"
    /\ IF Len(mpd_data) < 2 THEN Raise("IndexError")
       ELSE IF video.single \/ ~audio.single THEN Raise("AssertionError")
       ELSE /\ pc' = Then("select")
            /\ Did("select", "")
    /\ UNCHANGED <<playlist, server, run, ci, ei, dirs, files, locals, prev>>

\* the destination is not looked for: the file is always requested and written
fetch_fileUngated(op, filename) ==
    /\ files' = Written(filename, Content("encrypted", TRUE))
    /\ pc' = Then(op)
    /\ Did(op, "get")

\* the destination is opened before the status of the response is looked at
fetch_fileOpensFirst(op, filename) ==
    IF exists(filename)
    THEN /\ files' = files
         /\ pc' = Then(op)
         /\ Did(op, "exists")
    ELSE \/ /\ files' = Written(filename, Content("encrypted", TRUE))
            /\ pc' = Then(op)
            /\ Did(op, "get")
         \/ /\ files' = files
            /\ RaiseAfter(<<Event(op, "get")>>, "ConnectionError")
         \/ /\ files' = Written(filename, Content("encrypted", FALSE))
            /\ RaiseAfter(<<Event(op, "get")>>, "HTTPError")
         \/ /\ files' = Written(filename, Content("encrypted", FALSE))
            /\ RaiseAfter(<<Event(op, "get")>>, "OSError")

\* fetch_file (rip.py:105-115) as the step `op` of download_episode
fetch_file(op, filename) ==
    IF exists(filename)
    THEN /\ files' = files
         /\ pc' = Then(op)
         /\ Did(op, "exists")
    ELSE \/ /\ files' = Written(filename, Content("encrypted", TRUE))
            /\ pc' = Then(op)
            /\ Did(op, "get")
         \/ /\ files' = files                    \* requests.get raises: no response
            /\ RaiseAfter(<<Event(op, "get")>>, "ConnectionError")
         \/ /\ files' = files                    \* raise_for_status raises
            /\ RaiseAfter(<<Event(op, "get")>>, "HTTPError")
         \/ /\ files' = Written(filename, Content("encrypted", FALSE))
            /\ RaiseAfter(<<Event(op, "get")>>, "OSError")   \* f.write raises

\* rip.py:136
VideoRepresentation(reps) == reps[Len(reps)]

\* rip.py:136-137
FetchVideo ==
    /\ pc = "fetch_video"
    /\ IF Len(video.representation) = 0
       THEN /\ Raise("IndexError")
            /\ UNCHANGED <<files, video_url>>
       ELSE /\ video_url' = urljoin(<<base, episode.id,
                                       VideoRepresentation(video.representation).base_url>>)
            /\ fetch_file("fetch_video", video_filename)
    /\ UNCHANGED <<playlist, server, run, ci, ei, dirs, mpd_data,
                   audio_url, video_key, audio_key, prev>>

\* rip.py:139-140
FetchAudio ==
    /\ pc = "fetch_audio"
    /\ audio_url' = urljoin(<<base, episode.id, audio.representation[1].base_url>>)
    /\ fetch_file("fetch_audio", audio_filename)
    /\ UNCHANGED <<playlist, server, run, ci, ei, dirs, mpd_data,
                   video_url, video_key, audio_key, prev>>

\* only the first hyphen is removed
KeyIdFirstHyphen(cenc_kid) ==
    IF \E i \in DOMAIN cenc_kid : cenc_kid[i] = "-"
    THEN LET i == CHOOSE i \in DOMAIN cenc_kid :
                      cenc_kid[i] = "-" /\ \A j \in 1..(i - 1) : cenc_kid[j] # "-"
         IN  SubSeq(cenc_kid, 1, i - 1) \o SubSeq(cenc_kid, i + 1, Len(cenc_kid))
    ELSE cenc_kid

\* rip.py:146-147
KeyId(cenc_kid) == Replace(cenc_kid, "-", <<>>)

\* episode.keys[key_id] (rip.py:148-149): the key, or KeyError
KeyError == "KeyError"

\* episode.keys.get(key_id, ""): a missing key is no error
KeyOfDefault(keys, key_id) == IF key_id \in DOMAIN keys THEN keys[key_id] ELSE ""

KeyOf(keys, key_id) == IF key_id \in DOMAIN keys THEN keys[key_id] ELSE KeyError

\* rip.py:142-149
ResolveKeys ==
    /\ pc = "keys"
    /\ IF exists(combined_filename)
       THEN /\ pc' = "remove_video"
            /\ UNCHANGED <<log, video_key, audio_key>>
       ELSE IF \/ video.protections[1].cenc_kid = NoKid
               \/ audio.protections[1].cenc_kid = NoKid
       THEN /\ Raise("AssertionError:cenc_kid")
            /\ UNCHANGED <<video_key, audio_key>>
       ELSE LET video_key_id == KeyId(video.protections[1].cenc_kid)
                audio_key_id == KeyId(audio.protections[1].cenc_kid)
            IN  IF \/ KeyOf(episode.keys, video_key_id) = KeyError
                   \/ KeyOf(episode.keys, audio_key_id) = KeyError
                THEN /\ Raise(KeyError)
                     /\ UNCHANGED <<video_key, audio_key>>
                ELSE /\ video_key' = KeyOf(episode.keys, video_key_id)
                     /\ audio_key' = KeyOf(episode.keys, audio_key_id)
                     /\ pc' = Then("keys")
                     /\ Did("keys", "")
    /\ UNCHANGED <<playlist, server, run, ci, ei, dirs, files, mpd_data,
                   video_url, audio_url, prev>>

\* rip.py:150-158: ffmpeg writes the combined file, or fails and leaves none or a part
DecryptMux ==
    /\ pc = "ffmpeg"
    /\ \/ /\ files' = Written(combined_filename, Content("combined", TRUE))
          /\ pc' = Then("ffmpeg")
          /\ Did("ffmpeg", "run")
       \/ /\ files' = files
          /\ RaiseAfter(<<Event("ffmpeg", "run")>>, "ffmpeg.Error")
       \/ /\ files' = Written(combined_filename, Content("combined", FALSE))
          /\ RaiseAfter(<<Event("ffmpeg", "run")>>, "ffmpeg.Error")
    /\ UNCHANGED <<playlist, server, run, ci, ei, dirs, locals, prev>>

\* os.remove in try/except (rip.py:160-167): the file is gone, or the error is dropped
remove(op, filename) ==
    \/ /\ exists(filename)
       /\ files' = Removed(filename)
       /\ Did(op, "removed")
    \/ /\ files' = files
       /\ Did(op, "failed")

\* os.remove without try/except: a failed removal ends the process
RemoveVideoEscalates ==
    /\ pc = "remove_video"
    /\ \/ /\ exists(video_filename)
          /\ files' = Removed(video_filename)
          /\ Did("remove_video", "removed")
          /\ pc' = Then("remove_video")
       \/ /\ files' = files
          /\ RaiseAfter(<<Event("remove_video", "failed")>>, "OSError")
    /\ UNCHANGED <<playlist, server, run, ci, ei, dirs, locals, prev>>

\* rip.py:160-163
RemoveVideo ==
    /\ pc = "remove_video"
    /\ remove("remove_video", video_filename)
    /\ pc' = Then("remove_video")
    /\ UNCHANGED <<playlist, server, run, ci, ei, dirs, locals, prev>>

\* rip.py:164-167, and the return to the loop of download_playlist
RemoveAudio ==
    /\ pc = "remove_audio"
    /\ remove("remove_audio", audio_filename)
    /\ pc' = "episode"
    /\ ei' = ei + 1
    /\ NoLocals
    /\ UNCHANGED <<playlist, server, run, ci, dirs, prev>>

-----------------------------------------------------------------------------
(* The process is started again on the same playlist and output tree (rip.py:190-192) *)

Rerun ==
    /\ pc \in {"done", "aborted"}
    /\ run < MaxRuns
    /\ run' = run + 1
    /\ prev' = [status |-> pc, ch |-> ci, ep |-> ei,
                 did |-> SelectSeq(log, LAMBDA e : e.ch = ci /\ e.ep = ei)]
    /\ pc' = "chapter"
    /\ ci' = 1
    /\ ei' = 0
    /\ log' = <<>>
    /\ NoLocals
    /\ UNCHANGED <<playlist, server, dirs, files>>

Start ==
    /\ run = 1
    /\ pc = "chapter"
    /\ ci = 1
    /\ ei = 0
    /\ dirs = {}
    /\ files = [p \in {} |-> TRUE]
    /\ mpd_data = NoMpd
    /\ video_url = NoUrl
    /\ audio_url = NoUrl
    /\ video_key = NoKey
    /\ audio_key = NoKey
    /\ log = <<>>
    /\ prev = [status |-> "none", ch |-> 0, ep |-> 0, did |-> <<>>]

Init ==
    /\ playlist \in Playlists({Keys})
    /\ server = "few"
    /\ Start

\* one chapter with one episode
OnePlaylist(keys) ==
    << << <<"s", "/", "t">>, << << <<"x", "/", "y">>, [id |-> <<"i">>, keys |-> keys] >> >> >> >>

\* the origin may answer with any MPD document
InitMpd ==
    /\ playlist = OnePlaylist(Keys)
    /\ server = "all"
    /\ Start

\* download_episode at rip.py:142 with both files fetched, for every pair of
\* declared key ids and every key map
InitKeys ==
    /\ playlist \in {OnePlaylist(keys) : keys \in KeyMaps}
    /\ server = "kids"
    /\ run = 1
    /\ pc = "keys"
    /\ ci = 1
    /\ ei = 1
    /\ dirs = {<<"s", "-", "t">>}
    /\ files = [p \in {PathJoin(<<"s", "-", "t">>, <<"x", "-", "y", ".video", ".mp4">>),
                        PathJoin(<<"s", "-", "t">>, <<"x", "-", "y", ".audio", ".mp4">>)} |->
                    [kind |-> "encrypted", by |-> <<1, 1>>, whole |-> TRUE]]
    /\ mpd_data \in KidManifests
    /\ video_url = urljoin(<<base, <<"i">>, <<"video", "800">>>>)
    /\ audio_url = urljoin(<<base, <<"i">>, <<"audio", "500">>>>)
    /\ video_key = NoKey
    /\ audio_key = NoKey
    /\ log = [i \in 1..6 |->
                 [op |-> <<"makedirs", "download_episode", "fetch_mpd", "select",
                           "fetch_video", "fetch_audio">>[i],
                  ch |-> 1,
                  ep |-> IF i = 1 THEN 0 ELSE 1,
                  arg |-> <<"", "absent", "get", "", "get", "get">>[i]]]
    /\ prev = [status |-> "none", ch |-> 0, ep |-> 0, did |-> <<>>]

Next ==
    \/ NextChapter
    \/ NextEpisode
    \/ FetchMpd
    \/ SelectStreams
    \/ FetchVideo
    \/ FetchAudio
    \/ ResolveKeys
    \/ DecryptMux
    \/ RemoveVideo
    \/ RemoveAudio
    \/ Rerun

Spec == Init /\ [][Next]_vars

SpecMpd == InitMpd /\ [][Next]_vars

NextKeys == ResolveKeys

SpecKeys == InitKeys /\ [][NextKeys]_vars

-----------------------------------------------------------------------------
(* What a run did, as the claims speak of it *)

Network(e) == e.op \in {"fetch_mpd", "fetch_video", "fetch_audio"} /\ e.arg = "get"

Mux(e) == e.op = "ffmpeg"

Same(i, j) == log[i].ch = log[j].ch /\ log[i].ep = log[j].ep

\* the episodes of the playlist, as (chapter index, episode index), and their order
Positions == {p \in (DOMAIN playlist) \X (1..MaxEpisodes) :
                 p[2] \in DOMAIN playlist[p[1]][2]}

Before(p, q) == p[1] < q[1] \/ (p[1] = q[1] /\ p[2] < q[2])

At(i) == <<log[i].ch, log[i].ep>>

CombinedOf(p) ==
    PathJoin(Replace(playlist[p[1]][1], "/", <<"-">>),
             Replace(playlist[p[1]][2][p[2]][1], "/", <<"-">>) \o <<".mp4">>)

\* C1: after a run that completed without error, the next run makes no network
\* fetch (manifest, video, audio) and invokes ffmpeg for no episode
C1_Idempotent ==
    prev.status = "done" => \A i \in DOMAIN log : ~Network(log[i]) /\ ~Mux(log[i])

\* C2: an episode entered with its combined file on disk does nothing but attempt
\* the removal of its video and of its audio file, and attempts both
C2_OuterGate ==
    \A i \in DOMAIN log :
        (log[i].op = "download_episode" /\ log[i].arg = "exists") =>
            LET after == SelectSeq(SubSeq(log, i + 1, Len(log)),
                                   LAMBDA e : e.ch = log[i].ch /\ e.ep = log[i].ep)
                inside == ci = log[i].ch /\ ei = log[i].ep
            IN  /\ Len(after) <= 2
                /\ \A k \in DOMAIN after : after[k].op = <<"remove_video", "remove_audio">>[k]
                /\ ~inside => Len(after) = 2

C2_Witness ==
    \E i, j \in DOMAIN log :
        /\ log[i].op = "download_episode" /\ log[i].arg = "exists"
        /\ i < j /\ Same(i, j)
        /\ log[j].op = "remove_audio" /\ log[j].arg = "removed"

\* the order the specification gives the steps of an episode: keys before the fetches
ClaimedRank(op) ==
    CASE op = "download_episode" -> 0
      [] op = "fetch_mpd"    -> 1
      [] op = "select"       -> 2
      [] op = "keys"         -> 3
      [] op = "fetch_video"  -> 4
      [] op = "fetch_audio"  -> 5
      [] op = "ffmpeg"       -> 6
      [] op = "remove_video" -> 7
      [] op = "remove_audio" -> 8
      [] OTHER               -> 9

\* the order with key resolution after the two fetches
Rank(op) ==
    CASE op = "download_episode" -> 0
      [] op = "fetch_mpd"    -> 1
      [] op = "select"       -> 2
      [] op = "fetch_video"  -> 3
      [] op = "fetch_audio"  -> 4
      [] op = "keys"         -> 5
      [] op = "ffmpeg"       -> 6
      [] op = "remove_video" -> 7
      [] op = "remove_audio" -> 8
      [] OTHER               -> 9

KeyErrors == {"AssertionError:cenc_kid", KeyError}

Fetched(i, op) == \E j \in 1..(i - 1) : Same(i, j) /\ log[j].op = op

Later(p) == Before(<<ci, ei>>, p)

\* C4: after a fatal error in an episode the run does nothing more: the error
\* is the last thing the run did and the control flow has left the process
C4_AbortPropagation ==
    \A i \in DOMAIN log : log[i].op = "error" => i = Len(log) /\ pc = "aborted"

C4_Witness ==
    /\ pc = "aborted"
    /\ \E p \in Positions : Later(p) /\ ~exists(CombinedOf(p))
    /\ \E i \in DOMAIN log : log[i].op = "error" /\ log[i].arg = "HTTPError"

\* C5: when the run after an aborted run completes, it has fetched and muxed
\* nothing for the episodes before the one that failed, has run the pipeline
\* for that episode and the later ones, and every episode has a combined file
\* written in full by ffmpeg
C5_Resumable ==
    (prev.status = "aborted" /\ pc = "done") =>
        /\ \A i \in DOMAIN log :
              (Network(log[i]) \/ Mux(log[i])) => ~Before(At(i), <<prev.ch, prev.ep>>)
        /\ \A p \in Positions :
              ~Before(p, <<prev.ch, prev.ep>>) =>
                  \E i \in DOMAIN log : At(i) = p /\ Mux(log[i])
        /\ \A p \in Positions :
              /\ exists(CombinedOf(p))
              /\ files[CombinedOf(p)].kind = "combined"
              /\ files[CombinedOf(p)].whole

-----------------------------------------------------------------------------
(* Stream selection and key resolution, as the claims speak of them *)

Bandwidths(set) == {set.representation[i].bandwidth : i \in DOMAIN set.representation}

\* the URL a representation of the episode the loops are at is fetched from
UrlOf(r) == urljoin(<<base, episode.id, r.base_url>>)

\* the URLs of the representations of the adaptation sets tagged c
UrlsOf(c) ==
    UNION {{UrlOf(mpd_data[i].representation[j]) : j \in DOMAIN mpd_data[i].representation} :
              i \in {k \in DOMAIN mpd_data : mpd_data[k].content_type = c}}

\* the episode the loops are at has fetched a segment or run ffmpeg in this run
Downloaded ==
    \E i \in DOMAIN log :
        /\ At(i) = <<ci, ei>>
        /\ \/ log[i].op \in {"fetch_video", "fetch_audio"} /\ log[i].arg = "get"
           \/ Mux(log[i])

\* C6: the representation fetched as the video stream has the greatest bandwidth
\* of the video adaptation set, in whatever order the representations are declared
C6_MaxBandwidth ==
    (video_url # NoUrl /\ video.content_type = "video" /\ audio.content_type = "audio") =>
        \E i \in DOMAIN video.representation :
            /\ video_url = UrlOf(video.representation[i])
            /\ \A bw \in Bandwidths(video) : bw <= video.representation[i].bandwidth

\* C7: the stream fetched to the video file and the protection entry used for it
\* come from the adaptation set tagged video, those of the audio file from the
\* adaptation set tagged audio, in whatever order the sets are declared
C7_ByContentType ==
    (mpd_data # NoMpd /\ {mpd_data[i].content_type : i \in DOMAIN mpd_data} = ContentType) =>
        /\ video_url # NoUrl => video_url \in UrlsOf("video") /\ video.content_type = "video"
        /\ audio_url # NoUrl => audio_url \in UrlsOf("audio") /\ audio.content_type = "audio"

\* what the specification lets stream selection accept
Selectable(mpd) ==
    /\ \E i \in DOMAIN mpd : mpd[i].content_type = "video"
    /\ \E i \in DOMAIN mpd : mpd[i].content_type = "audio"
    /\ \A i \in DOMAIN mpd :
          /\ mpd[i].content_type = "video" => Len(mpd[i].representation) >= 1
          /\ mpd[i].content_type = "audio" => Len(mpd[i].representation) <= 1

\* C8: for an MPD without a video or without an audio adaptation set, with a
\* video set of no representation or an audio set of several, no segment is
\* fetched and ffmpeg is not run for the episode
C8_SelectionFails ==
    (mpd_data # NoMpd /\ ~Selectable(mpd_data)) => ~Downloaded

\* a key id without its hyphens
HyphenFree(kid) == SelectSeq(kid, LAMBDA c : c # "-")

Resolvable(kid) == kid # NoKid /\ HyphenFree(kid) \in DOMAIN episode.keys

\* C9: key resolution succeeds exactly when the hyphen-free forms of the declared
\* key ids are keys of the episode's map, and gives the map's entry for that form:
\* two declared key ids that differ only in their hyphens get the same key, or
\* both fail
C9_Hyphenation ==
    pc # "keys" =>
        LET v == video.protections[1].cenc_kid
            a == audio.protections[1].cenc_kid
        IN  /\ pc = "ffmpeg" <=> (Resolvable(v) /\ Resolvable(a))
            /\ pc = "ffmpeg" => /\ video_key = episode.keys[HyphenFree(v)]
                                /\ audio_key = episode.keys[HyphenFree(a)]
            /\ HyphenFree(v) = HyphenFree(a) =>
                  \/ pc = "ffmpeg" /\ video_key = audio_key
                  \/ pc = "aborted" /\ ~Resolvable(v) /\ ~Resolvable(a)

C9_Witness ==
    /\ pc = "ffmpeg"
    /\ video.protections[1].cenc_kid = <<"-", "a", "-">>
    /\ audio.protections[1].cenc_kid = <<"a">>
    /\ video_key = "k4"
    /\ <<"a", "-", "a">> \in DOMAIN episode.keys

\* the MPD of the episode declares a key id that cannot be resolved
Unresolvable ==
    /\ mpd_data # NoMpd
    /\ Len(mpd_data) >= 2
    /\ ~Resolvable(video.protections[1].cenc_kid) \/ ~Resolvable(audio.protections[1].cenc_kid)

\* C10: when the protection entry of the video or of the audio stream has no key
\* id, or one that is not in the episode's key map, ffmpeg is never run for the
\* episode, no combined file is written and the episode does not get past the
\* key resolution
C10_FailsLoudly ==
    Unresolvable =>
        /\ pc \in {"select", "fetch_video", "fetch_audio", "keys", "aborted"}
        /\ ~exists(combined_filename)
        /\ \A i \in DOMAIN log : At(i) = <<ci, ei>> => ~Mux(log[i])

C10_Witness ==
    /\ Unresolvable
    /\ pc = "aborted"
    /\ log[Len(log)].arg = KeyError
    /\ exists(video_filename) /\ exists(audio_filename)

-----------------------------------------------------------------------------
(* fetch_file, as the claims speak of it *)

FetchOps == {"fetch_video", "fetch_audio"}

Destination(op) == IF op = "fetch_video" THEN video_filename ELSE audio_filename

\* this step is a call of fetch_file as the step `op` of the episode
Calls(op) == pc = op /\ Len(log') > Len(log) /\ log'[Len(log) + 1].op = op

\* C11: a call of fetch_file whose destination exists makes no request, leaves
\* every file as it is and returns; a call whose destination does not exist and
\* that returns without error leaves the destination on disk
C11_ExistenceGate ==
    [][\A op \in FetchOps :
          Calls(op) =>
              IF exists(Destination(op))
              THEN /\ files' = files
                   /\ log' = Append(log, Event(op, "exists"))
                   /\ pc' # AfterError
              ELSE pc' # AfterError => Destination(op) \in DOMAIN files']_vars

\* a fetch was skipped for a destination that is a partly written file
C11_Witness ==
    \E i \in DOMAIN log :
        /\ log[i].op = "fetch_video" /\ log[i].arg = "exists"
        /\ At(i) = <<ci, ei>>
        /\ pc = "fetch_audio"
        /\ exists(video_filename) /\ ~files[video_filename].whole

-----------------------------------------------------------------------------
(* The output tree at the end of a run, as the claims speak of it *)

NameOf(p) == Replace(playlist[p[1]][2][p[2]][1], "/", <<"-">>)

DirOf(p) == Replace(playlist[p[1]][1], "/", <<"-">>)

VideoOf(p) == PathJoin(DirOf(p), NameOf(p) \o <<".video", ".mp4">>)

AudioOf(p) == PathJoin(DirOf(p), NameOf(p) \o <<".audio", ".mp4">>)

\* a file that fetch_file wrote is at `path`
Encrypted(path) == exists(path) /\ files[path].kind = "encrypted"

RemovalFailed == \E i \in DOMAIN log :
                     log[i].op \in {"remove_video", "remove_audio"} /\ log[i].arg = "failed"

\* C12: when a run has completed without error and none of its removals has
\* failed, every episode of the playlist has its combined file and no episode
\* has its encrypted video file or its encrypted audio file left on disk
C12_EndState ==
    (pc = "done" /\ ~RemovalFailed) =>
        \A p \in Positions :
            /\ exists(CombinedOf(p))
            /\ ~Encrypted(VideoOf(p))
            /\ ~Encrypted(AudioOf(p))

-----------------------------------------------------------------------------
(* Cleanup and the order of the playlist, as the claims speak of them *)

Failed(i, op) == log[i].op = op /\ log[i].arg = "failed"

\* C13: a failed removal of the video file is followed by the attempt to remove
\* the audio file of the same episode, and a failed removal of the audio file by
\* the return to the loop of the playlist, which goes on to the next episode or
\* chapter or ends the run without error
C13_CleanupSwallowed ==
    \A i \in DOMAIN log :
        /\ Failed(i, "remove_video") =>
              IF i = Len(log)
              THEN pc = "remove_audio" /\ At(i) = <<ci, ei>>
              ELSE log[i + 1].op = "remove_audio" /\ Same(i, i + 1)
        /\ Failed(i, "remove_audio") =>
              IF i = Len(log)
              THEN pc \in {"episode", "chapter", "done"} /\ Before(At(i), <<ci, ei>>)
              ELSE /\ log[i + 1].op \in {"download_episode", "makedirs"}
                   /\ Before(At(i), At(i + 1))

\* both removals of an episode failed and the next episode was entered
C13_Witness ==
    \E i \in DOMAIN log :
        /\ i + 2 \in DOMAIN log
        /\ Failed(i, "remove_video") /\ exists(VideoOf(At(i)))
        /\ Failed(i + 1, "remove_audio")
        /\ log[i + 2].op = "download_episode"

\* what follows <<chapter, episode>> in the declaration order of the playlist; the
\* creation of the directory of chapter c is at <<c, 0>>
Successor(p) == IF p[2] < Len(playlist[p[1]][2]) THEN <<p[1], p[2] + 1>> ELSE <<p[1] + 1, 0>>

\* C14: a run creates the directory of the first chapter first; everything it
\* does next is a further step of the same episode or the first step of what
\* follows in declaration order (the next episode of the chapter, or the
\* creation of the next chapter's directory), and it leaves an episode only
\* after the second removal of its cleanup; so the directory of a chapter
\* exists before any step of its episodes
C14_PlaylistOrder ==
    /\ log # <<>> => log[1].op = "makedirs" /\ At(1) = <<1, 0>>
    /\ \A i \in DOMAIN log :
          /\ log[i].op = "makedirs" <=> log[i].ep = 0
          /\ log[i].op = "makedirs" => DirOf(At(i)) \in dirs
          /\ i < Len(log) =>
                \/ /\ At(i + 1) = At(i)
                   /\ log[i].ep > 0
                   /\ log[i + 1].op # "download_episode"
                \/ /\ At(i + 1) = Successor(At(i))
                   /\ log[i].op \in {"makedirs", "remove_audio"}
                   /\ log[i + 1].op \in {"makedirs", "download_episode"}

\* a run has gone through two chapters with a directory each and one episode each
C14_Witness ==
    /\ pc = "done"
    /\ Len(playlist) = 2
    /\ Cardinality(dirs) = 2
    /\ \E i, j \in DOMAIN log :
          /\ i < j
          /\ log[i].op = "ffmpeg" /\ At(i) = <<1, 1>>
          /\ log[j].op = "ffmpeg" /\ At(j) = <<2, 1>>

-----------------------------------------------------------------------------
(* Paths, as the claims speak of them *)

\* a name with `-` in the place of every `/`
Sanitized(name) == [i \in DOMAIN name |-> IF name[i] = "/" THEN "-" ELSE name[i]]

SingleLevel(component) == \A i \in DOMAIN component : component[i] # "/"

Suffixes == {<<".mp4">>, <<".video", ".mp4">>, <<".audio", ".mp4">>}

\* C15: every directory on disk is the name of a chapter with `-` for every `/`,
\* every file on disk is in such a directory and named by the name of one of
\* the chapter's episodes with `-` for every `/` and a suffix, and no directory
\* or file name holds a `/`
C15_Sanitized ==
    /\ \A d \in dirs :
          /\ SingleLevel(d)
          /\ \E c \in DOMAIN playlist : d = Sanitized(playlist[c][1])
    /\ \A path \in DOMAIN files :
          /\ path[1] \in dirs
          /\ SingleLevel(path[2])
          /\ \E p \in Positions, suffix \in Suffixes :
                /\ path[1] = Sanitized(playlist[p[1]][1])
                /\ path[2] = Sanitized(playlist[p[1]][2][p[2]][1]) \o suffix

\* the chapter "s/t" has the directory "s-t", its episode "x/y" the file "x-y.mp4"
C15_Witness ==
    /\ playlist[1][1] = <<"s", "/", "t">>
    /\ Len(playlist[1][2]) >= 1
    /\ playlist[1][2][1][1] = <<"x", "/", "y">>
    /\ dirs = {<<"s", "-", "t">>}
    /\ exists(<<<<"s", "-", "t">>, <<"x", "-", "y", ".mp4">>>>)

-----------------------------------------------------------------------------
(* One output for each episode *)

\* the number of times the run has invoked ffmpeg for the episode at p
MuxCount(p) == Cardinality({i \in DOMAIN log : At(i) = p /\ Mux(log[i])})

\* C16: when the first run on an empty output tree has completed without error,
\* ffmpeg has been invoked exactly once for every episode of the playlist, and
\* every episode has a combined file that its own ffmpeg run wrote
C16_OwnOutput ==
    (run = 1 /\ pc = "done") =>
        \A p \in Positions :
            /\ MuxCount(p) = 1
            /\ exists(CombinedOf(p))
            /\ files[CombinedOf(p)].kind = "combined"
            /\ files[CombinedOf(p)].by = p

-----------------------------------------------------------------------------
(* The state ffmpeg is invoked in *)

KeysOf(e) == {e.keys[k] : k \in DOMAIN e.keys}

\* C17: whenever ffmpeg is about to be invoked for an episode, the encrypted
\* video file and the encrypted audio file of the episode are on disk, both keys
\* are keys of the episode's map, and the combined file of the episode is not on
\* disk; no episode entered with its combined file on disk gets an ffmpeg run
C17_MuxPrecondition ==
    /\ pc = "ffmpeg" =>
          /\ exists(video_filename)
          /\ exists(audio_filename)
          /\ video_key \in KeysOf(episode)
          /\ audio_key \in KeysOf(episode)
          /\ ~exists(combined_filename)
    /\ \A i \in DOMAIN log :
          (log[i].op = "download_episode" /\ log[i].arg = "exists") =>
              \A j \in DOMAIN log : Same(i, j) => ~Mux(log[j])

\* ffmpeg is about to be invoked on an audio file that an earlier run fetched
C17_Witness ==
    /\ pc = "ffmpeg"
    /\ run = 2
    /\ \E i \in DOMAIN log :
          At(i) = <<ci, ei>> /\ log[i].op = "fetch_audio" /\ log[i].arg = "exists"
    /\ files[audio_filename].kind = "encrypted"
    /\ files[audio_filename].by = <<ci, ei>>

-----------------------------------------------------------------------------
(* Failed fetches, as the claims speak of them *)

\* this step is a call of fetch_file as the step `op` that raises `error`
FetchFails(op, error) == Calls(op) /\ log'[Len(log')] = Event("error", error)

\* this step leaves a partly written file that was not there before
LeavesPart == \E path \in DOMAIN files' :
                  /\ ~files'[path].whole
                  /\ files'[path].kind = "encrypted"
                  /\ path \notin DOMAIN files \/ files[path] # files'[path]

\* the previous run ended in the step `op` of its last episode raising `error`
PrevFailed(op, error) ==
    /\ prev.status = "aborted"
    /\ Len(prev.did) >= 2
    /\ prev.did[Len(prev.did) - 1].op = op
    /\ prev.did[Len(prev.did) - 1].arg = "get"
    /\ prev.did[Len(prev.did)].arg = error

\* a fetch that failed with a non-success status has changed no file and its
\* destination is not on disk; the run after it does not skip that fetch
StatusFirst ==
    /\ [][\A op \in FetchOps :
             FetchFails(op, "HTTPError") =>
                 files' = files /\ Destination(op) \notin DOMAIN files']_vars
    /\ [](\A op \in FetchOps :
             PrevFailed(op, "HTTPError") =>
                 \A i \in DOMAIN log :
                     (At(i) = <<prev.ch, prev.ep>> /\ log[i].op = op) => log[i].arg = "get")

\* the failures of the transport: requests.get raises and there is no response
TransportErrors == {"ConnectionError"}

\* C18 as claimed: a fetch that fails with a non-success status changes no file,
\* its destination is not on disk and the next run does not skip that fetch; a
\* partly written file is left only by a fetch that fails with a failure of the
\* transport
C18_Claimed ==
    /\ StatusFirst
    /\ [][LeavesPart => \E op \in FetchOps, error \in TransportErrors :
                            FetchFails(op, error)]_vars

\* C18 as amended: a fetch that fails with a non-success status or with a
\* failure of the transport changes no file, its destination is not on disk and
\* the next run does not skip that fetch; a partly written file is left only by
\* a fetch whose response was complete and that fails while writing the file
C18_StatusBeforeOpen ==
    /\ StatusFirst
    /\ [][\A op \in FetchOps, error \in TransportErrors :
             FetchFails(op, error) =>
                 files' = files /\ Destination(op) \notin DOMAIN files']_vars
    /\ [][LeavesPart => \E op \in FetchOps : FetchFails(op, "OSError")]_vars

\* the audio fetch of the previous run failed with a non-success status, and
\* this run has requested the audio file again
C18_Witness ==
    /\ PrevFailed("fetch_audio", "HTTPError")
    /\ pc = "keys"
    /\ log[Len(log)] = Event("fetch_audio", "get")
    /\ <<ci, ei>> = <<prev.ch, prev.ep>>

-----------------------------------------------------------------------------
(* An episode that fails after a fetch *)

\* in the steps `events` of an episode, the step `op` was done and raised nothing
Completed(events, op) ==
    \E i \in DOMAIN events :
        /\ events[i].op = op
        /\ i < Len(events)
        /\ events[i + 1].op # "error"

\* what the run has done for the episode the loops are at
Steps == SelectSeq(log, LAMBDA e : e.ch = ci /\ e.ep = ei)

\* C19: when an episode has failed after its video fetch or its audio fetch was
\* done, the run has attempted no removal for it and the files of the fetches
\* that were done are on disk; the next run enters the pipeline of that episode
\* again, so it fetches its manifest, and finds the files of those fetches
\* instead of requesting them
C19_NoCleanupOnFailure ==
    /\ pc = "aborted" =>
          \A op \in FetchOps :
              Completed(Steps, op) =>
                  /\ exists(Destination(op))
                  /\ \A i \in DOMAIN Steps :
                        Steps[i].op \notin {"remove_video", "remove_audio"}
    /\ prev.status = "aborted" =>
          \A op \in FetchOps :
              Completed(prev.did, op) =>
                  \A i \in DOMAIN log :
                      At(i) = <<prev.ch, prev.ep>> =>
                          /\ log[i].op = "download_episode" => log[i].arg = "absent"
                          /\ log[i].op = op => log[i].arg = "exists"

====
